---- MODULE Spec2Model ----
(***************************************************************************)
(* Model of dublab_mixcloud_uploaderz.py: the token cache of MixcloudAuth, *)
(* MixcloudUploader.upload with its filename parsing and response          *)
(* handling, and the poll loop of FolderWatcher.start.                     *)
(*                                                                         *)
(* Strings are sequences of one-character strings, so that rsplit,         *)
(* replace, split and strip are computed as Python computes them.          *)
(***************************************************************************)
EXTENDS Integers, Sequences, FiniteSets, TLC

VARIABLES
    token,          \* MixcloudAuth.token (in memory)
    token_file,     \* contents of the file TOKEN_FILE, or Absent
    written,        \* the token get_token last wrote to token_file and that is still there, else None
    watch_folder,   \* names of the files directly inside WATCH_FOLDER
    shows_folder,   \* <<show_name, filename>> of the files inside SHOWS_FOLDER/<show_name>/
    seen_files,     \* FolderWatcher.seen_files
    pending,        \* entries of the current glob listing not yet visited by the for loop
    pc,             \* position of the process: main, scan, iter, crashed (parse, fields, listen, code, exchange in the other specifications)
    uploads,        \* per file, the outcomes of the upload calls of this process
    last,           \* what the last get_token / upload call did
    filename,       \* input of the filename parsing (SpecParse, SpecFields)
    parsed,         \* its result (SpecParse)
    meta,           \* the catalog entry of the parsed show name (SpecFields)
    fields,         \* the form fields built from filename and meta (SpecFields)
    inbox,          \* requests sent to the callback listener and not yet handled (SpecListen)
    handled,        \* the requests the listener handled, in order (SpecListen)
    responses,      \* the status codes it answered, in order (SpecListen)
    code_holder,    \* the keys of code_holder in run_oauth_flow (SpecListen)
    arrival         \* per file name, how far the loop got with its latest arrival (SpecLive)

vars == <<token, token_file, written, watch_folder, shows_folder, seen_files,
          pending, pc, uploads, last, filename, parsed, meta, fields,
          inbox, handled, responses, code_holder, arrival>>

progVars == <<token, token_file, written, watch_folder, shows_folder, seen_files,
              pending, pc, uploads, last, arrival>>

listenVars == <<inbox, handled, responses, code_holder>>

parseVars == <<filename, parsed, meta, fields, listenVars>>

-----------------------------------------------------------------------------
(* Bounds *)

MaxTokLen == 1      \* most letters in a token
MaxFiles == 3       \* number of distinct file names in the watch folder
MaxCalls == 2       \* upload calls recorded per file and process
MaxPieces == 7      \* pieces of a filename stem in SpecParse
MaxTags == 7        \* most tags of a catalog entry
MaxReqs == 4        \* requests sent to the callback listener in one flow

-----------------------------------------------------------------------------
(* Strings *)

None == <<"None">>          \* Python's None
Absent == <<"Absent">>      \* no such file
MP3 == <<".", "m", "p", "3">>
WS == {" ", "\n"}

Rep(c, n) == [i \in 1..n |-> c]

SeqsUpTo(S, n) == UNION {[1..k -> S] : k \in 0..n}

StartsWith(s, p) == Len(s) >= Len(p) /\ SubSeq(s, 1, Len(p)) = p

EndsWith(s, p) == Len(s) >= Len(p) /\ SubSeq(s, Len(s) - Len(p) + 1, Len(s)) = p

\* bool(x) of a str-or-None value
Truthy(t) == t # None /\ t # <<>>

\* str.strip()
RECURSIVE LStrip(_)
LStrip(s) == IF s # <<>> /\ Head(s) \in WS THEN LStrip(Tail(s)) ELSE s

RECURSIVE RStrip(_)
RStrip(s) == IF s # <<>> /\ s[Len(s)] \in WS THEN RStrip(SubSeq(s, 1, Len(s) - 1)) ELSE s

Strip(s) == RStrip(LStrip(s))

\* str.replace(p, "")
RECURSIVE Remove(_, _)
Remove(s, p) ==
    IF Len(s) < Len(p) THEN s
    ELSE IF StartsWith(s, p) THEN Remove(SubSeq(s, Len(p) + 1, Len(s)), p)
    ELSE <<Head(s)>> \o Remove(Tail(s), p)

\* str.split(c)
RECURSIVE Split(_, _)
Split(s, c) ==
    IF \E i \in 1..Len(s) : s[i] = c
    THEN LET i == CHOOSE i \in 1..Len(s) : s[i] = c /\ \A j \in 1..(i - 1) : s[j] # c
         IN  <<SubSeq(s, 1, i - 1)>> \o Split(SubSeq(s, i + 1, Len(s)), c)
    ELSE <<s>>

\* str.rsplit(c, 1)
RSplit1(s, c) ==
    IF \E i \in 1..Len(s) : s[i] = c
    THEN LET i == CHOOSE i \in 1..Len(s) : s[i] = c /\ \A j \in (i + 1)..Len(s) : s[j] # c
         IN  <<SubSeq(s, 1, i - 1), SubSeq(s, i + 1, Len(s))>>
    ELSE <<s>>

-----------------------------------------------------------------------------
(* Filename parsing of upload, lines 163-177 and the use at line 183 *)

\* date_bound: date_str_title was assigned, so line 183 does not raise
ParseFilename(fn) ==
    LET show_name_parts == RSplit1(fn, " ")
    IN  IF Len(show_name_parts) = 2
        THEN LET date_part == Remove(show_name_parts[2], MP3)
                 comps == Split(date_part, ".")
             IN  IF Len(comps) = 3
                 THEN [show_name |-> show_name_parts[1], has_date |-> TRUE,
                       day |-> comps[1], month |-> comps[2], year |-> comps[3],
                       date_str |-> comps[3] \o <<"-">> \o comps[2] \o <<"-">> \o comps[1],
                       date_bound |-> TRUE]
                 ELSE [show_name |-> show_name_parts[1], has_date |-> FALSE,
                       day |-> <<>>, month |-> <<>>, year |-> <<>>,
                       date_str |-> <<>>, date_bound |-> FALSE]
        ELSE [show_name |-> Remove(fn, MP3), has_date |-> FALSE,
              day |-> <<>>, month |-> <<>>, year |-> <<>>,
              date_str |-> <<>>, date_bound |-> FALSE]

-----------------------------------------------------------------------------
(* The form fields of upload, lines 171 and 179-200 *)

\* line 182: at most this many tags are submitted
TagCap == 5

\* self.metadata.get(show_name, {}) of a show the catalog does not hold: the
\* defaults of the three meta.get calls
NoMeta == [found |-> FALSE, host |-> <<>>, bio |-> <<>>, tags |-> <<>>]

\* line 171: f" {year}.{month}.{day} "
date_str_title(p) == <<" ">> \o p.year \o <<".">> \o p.month \o <<".">> \o p.day \o <<" ">>

\* line 182: meta.get("tags", [])[:5]
tags_list_uncapped(m) == m.tags

tags_list(m) == SubSeq(m.tags, 1, IF Len(m.tags) < TagCap THEN Len(m.tags) ELSE TagCap)

\* line 183
show_full_name(p, host) == p.show_name \o <<" ">> \o date_str_title(p) \o <<" ", "w", "/", " ">> \o host

\* str.lower() on the letters filenames are drawn from
Lower(s) == [i \in 1..Len(s) |-> IF s[i] = "A" THEN "a" ELSE s[i]]

TracklistPrefix ==
    <<"\n", "\n", "T", "r", "a", "c", "k", "l", "i", "s", "t", ":", " ",
      "h", "t", "t", "p", ":", "/", "/", "d", "u", "b", "l", "a", "b", ".", "c", "a", "t",
      "/", "s", "h", "o", "w", "s", "/">>

\* lines 185-187
description(p, bio) ==
    IF p.date_str # <<>>
    THEN bio \o TracklistPrefix \o Lower(p.show_name) \o <<"/">> \o p.date_str
    ELSE bio

\* lines 163-200: the data dict of the upload POST built from the filename
\* and the catalog entry, or the exception raised on the way.  tags maps i
\* to the value of the field "tags-{i}-tag".
BuildFields(fn, m) ==
    LET p == ParseFilename(fn)
        tl == tags_list(m)
    IN  IF ~p.date_bound
        THEN [exc |-> "UnboundLocalError", show_name |-> p.show_name, date_str |-> p.date_str,
              name |-> <<>>, description |-> <<>>, tags |-> <<>>]
        ELSE [exc |-> "none", show_name |-> p.show_name, date_str |-> p.date_str,
              name |-> show_full_name(p, m.host),
              description |-> description(p, m.bio),
              tags |-> [i \in 0..(Len(tl) - 1) |-> tl[i + 1]]]

-----------------------------------------------------------------------------
(* The environment's values *)

\* the k-th tag of a catalog entry: "t", "tt", ...
Tag(k) == Rep("t", k)

\* what the catalog may hold for a show: nothing, or a host, a bio and up
\* to MaxTags tags
CatalogEntries(n) ==
    {NoMeta} \cup {[found |-> TRUE, host |-> <<"h">>, bio |-> <<"b">>,
                    tags |-> [i \in 1..k |-> Tag(i)]] : k \in 0..n}

\* the access tokens the token endpoint may issue: "a", "aa", ... and the
\* same with a leading blank
PlainTokens == {Rep("a", k) : k \in 1..MaxTokLen}

Tokens == PlainTokens \cup {<<" ">> \o t : t \in PlainTokens}

\* what TOKEN_FILE may hold when the process first starts: nothing, a token,
\* a token followed by a newline
InitialFiles == {<<>>} \cup Tokens \cup {t \o <<"\n">> : t \in PlainTokens}

\* status codes of the token endpoint (200, or an error)
TokenStatuses == {200, 400}

\* status codes of the upload endpoint
UploadStatuses == {200, 401, 403, 500}

\* one run of the OAuth flow: the token endpoint's status, the access_token
\* field of its JSON body (None: no such field) and whether TOKEN_FILE can
\* be opened for writing afterwards
FlowInputs ==
    [status : {200}, access_token : Tokens, write_ok : BOOLEAN]
    \cup [status : TokenStatuses, access_token : Tokens \cup {None, <<>>}, write_ok : {TRUE}]

NoFlow == [status |-> 200, access_token |-> None, write_ok |-> TRUE]

\* "<show> 1.1.1.mp3" with a show name of k letters
DatedFile(k) == Rep("a", k) \o <<" ", "1", ".", "1", ".", "1">> \o MP3

\* "a a.mp3": two words, no date
UndatedFile == <<"a", " ", "a">> \o MP3

\* "a.txt": no audio file
OtherFile == <<"a", ".", "t", "x", "t">>

\* the names that may show up in the watch folder: two dated files, the
\* undated one, the other one, then more dated ones
NameAt(i) ==
    IF i <= 2 THEN DatedFile(i)
    ELSE IF i = 3 THEN UndatedFile
    ELSE IF i = 4 THEN OtherFile
    ELSE DatedFile(i - 2)

Names == {NameAt(i) : i \in 1..MaxFiles}

-----------------------------------------------------------------------------
(* MixcloudAuth *)

\* what the token endpoint answered in a run of the flow
Endpoint(in) ==
    IF in.status # 200 THEN "http_error"
    ELSE IF ~Truthy(in.access_token) THEN "no_token"
    ELSE "ok"

\* run_oauth_flow, lines 107-124: one POST to the token endpoint
run_oauth_flow_unchecked(in) ==
    IF ~Truthy(in.access_token)
    THEN [exc |-> "RuntimeError", ret |-> None, posts |-> 1]
    ELSE [exc |-> "none", ret |-> in.access_token, posts |-> 1]

run_oauth_flow(in) ==
    IF in.status # 200
    THEN [exc |-> "RuntimeError", ret |-> None, posts |-> 1]
    ELSE IF ~Truthy(in.access_token)
    THEN [exc |-> "RuntimeError", ret |-> None, posts |-> 1]
    ELSE [exc |-> "none", ret |-> in.access_token, posts |-> 1]

\* line 55: if self.token
Cached_never(tok) == FALSE

Cached(tok) == Truthy(tok)

\* how the token file stands to the token in memory when get_token is called
CacheState(tok, file) ==
    IF ~Truthy(tok) THEN "none"
    ELSE IF file = Absent THEN "removed"
    ELSE IF Strip(file) # tok /\ file # tok THEN "changed"
    ELSE "mirrored"

\* whether get_token, called in this state, gets as far as run_oauth_flow
NeedsFlow(tok, file) ==
    /\ ~Truthy(tok)
    /\ ~Truthy(IF file # Absent THEN Strip(file) ELSE tok)

\* get_token, lines 54-67.  The result holds the new self.token and file
\* contents, the value returned (ret), the exception raised (exc), where the
\* token came from (src), the number of token POSTs and the endpoint's answer.
get_token(tok, file, wr, in) ==
    IF Cached(tok)
    THEN [token |-> tok, token_file |-> file, written |-> wr, ret |-> tok,
          exc |-> "none", src |-> "memory", endpoint |-> "none", posts |-> 0]
    ELSE LET t1 == IF file # Absent THEN Strip(file) ELSE tok
         IN  IF Truthy(t1)
             THEN [token |-> t1, token_file |-> file, written |-> wr, ret |-> t1,
                   exc |-> "none", src |-> "file", endpoint |-> "none", posts |-> 0]
             ELSE LET r == run_oauth_flow(in)
                  IN  IF r.exc # "none"
                      THEN [token |-> t1, token_file |-> file, written |-> wr,
                            ret |-> None, exc |-> r.exc, src |-> "oauth",
                            endpoint |-> Endpoint(in), posts |-> r.posts]
                      ELSE IF ~in.write_ok
                      THEN [token |-> r.ret, token_file |-> file, written |-> wr,
                            ret |-> None, exc |-> "OSError", src |-> "oauth",
                            endpoint |-> Endpoint(in), posts |-> r.posts]
                      ELSE [token |-> r.ret, token_file |-> r.ret, written |-> r.ret,
                            ret |-> r.ret, exc |-> "none", src |-> "oauth",
                            endpoint |-> Endpoint(in), posts |-> r.posts]

-----------------------------------------------------------------------------
(* MixcloudUploader *)

\* move_to_show_folder, lines 225-234: makedirs is outside the try, rename inside
move_to_show_folder_keep(watch, shows, f, show_name, fault) ==
    IF fault = "makedirs"
    THEN [watch |-> watch, shows |-> shows, exc |-> "OSError", logged |-> "none"]
    ELSE IF fault = "rename"
    THEN [watch |-> watch, shows |-> shows, exc |-> "none", logged |-> "move_failed"]
    ELSE [watch |-> watch, shows |-> shows \cup {<<show_name, f>>},
          exc |-> "none", logged |-> "none"]

move_to_show_folder(watch, shows, f, show_name, fault) ==
    IF fault = "makedirs"
    THEN [watch |-> watch, shows |-> shows, exc |-> "OSError", logged |-> "none"]
    ELSE IF fault = "rename"
    THEN [watch |-> watch, shows |-> shows, exc |-> "none", logged |-> "move_failed"]
    ELSE [watch |-> watch \ {f}, shows |-> shows \cup {<<show_name, f>>},
          exc |-> "none", logged |-> "none"]

\* lines 214-219: os.remove(token_file) inside try/except OSError, then
\* self.auth.token = None.  os.remove of a missing file raises too.
clear_token_in_try(file, wr, tok, fault) ==
    IF file = Absent \/ fault = "remove"
    THEN [token |-> tok, token_file |-> file, written |-> wr, logged |-> "remove_failed"]
    ELSE [token |-> None, token_file |-> Absent, written |-> None, logged |-> "none"]

clear_token(file, wr, tok, fault) ==
    IF file = Absent \/ fault = "remove"
    THEN [token |-> None, token_file |-> file, written |-> wr, logged |-> "remove_failed"]
    ELSE [token |-> None, token_file |-> Absent, written |-> None, logged |-> "none"]

\* the branch of lines 209-223 a status code takes
Branch_all_auth(status) ==
    IF status = 200 THEN "success" ELSE "auth"

Branch(status) ==
    IF status = 200 THEN "success"
    ELSE IF status \in {401, 403} THEN "auth"
    ELSE "other"

\* lines 209-223: what upload does with the response
handle_response(status, tok, file, wr, watch, shows, f, show_name, fault) ==
    IF Branch(status) = "success"
    THEN LET m == move_to_show_folder(watch, shows, f, show_name, fault)
         IN  [token |-> tok, token_file |-> file, written |-> wr,
              watch |-> m.watch, shows |-> m.shows,
              outcome |-> IF m.exc = "none" THEN "True" ELSE "raise",
              exc |-> m.exc, logged |-> m.logged]
    ELSE IF Branch(status) = "auth"
    THEN LET c == clear_token(file, wr, tok, fault)
         IN  [token |-> c.token, token_file |-> c.token_file, written |-> c.written,
              watch |-> watch, shows |-> shows,
              outcome |-> "False", exc |-> "none", logged |-> c.logged]
    ELSE [token |-> tok, token_file |-> file, written |-> wr,
          watch |-> watch, shows |-> shows,
          outcome |-> "False", exc |-> "none", logged |-> "status"]

\* the inputs of one upload call: the OAuth flow's (read only if get_token
\* runs the flow), the status of the upload POST, the fault met and whether
\* the show has a picture.jpg.  A fault is listed with the statuses under
\* which the code reaches it.
Scenarios ==
    [fault : {"none", "network"}, status : {200}, picture : BOOLEAN]
    \cup [fault : {"none"}, status : UploadStatuses, picture : {FALSE}]
    \cup [fault : {"open_picture"}, status : {200}, picture : {TRUE}]
    \cup [fault : {"open_mp3", "makedirs", "rename"}, status : {200}, picture : {FALSE}]
    \cup [fault : {"remove"}, status : {401, 403}, picture : {FALSE}]

UploadInputs(tok, file) ==
    {[flow |-> fl, fault |-> sc.fault, status |-> sc.status, picture |-> sc.picture] :
        fl \in (IF NeedsFlow(tok, file) THEN FlowInputs ELSE {NoFlow}), sc \in Scenarios}

\* lines 205-207: the finally clause closes every handle of files
close_files(files) == {}

\* upload, lines 158-223.  status 0: the upload POST did not answer.
\* leaked: the handles of files (lines 162, 191) open when upload is left;
\* the try whose finally closes them starts at line 203.
upload(f, tok, file, wr, watch, shows, in) ==
    LET g == get_token(tok, file, wr, in.flow)
        p == ParseFilename(f)
        files == IF in.picture THEN {"mp3", "picture"} ELSE {"mp3"}
        R(outcome, exc, logged, status, t, tf, w, wa, sh, open) ==
            [token |-> t, token_file |-> tf, written |-> w, watch |-> wa, shows |-> sh,
             outcome |-> outcome, exc |-> exc, logged |-> logged, status |-> status,
             src |-> g.src, endpoint |-> g.endpoint, posts |-> g.posts, ret |-> g.ret,
             leaked |-> open]
        Raise(exc, open) ==
            R("raise", exc, "none", 0, g.token, g.token_file, g.written, watch, shows, open)
    IN  IF g.exc # "none" THEN Raise(g.exc, {})
        ELSE IF f \notin watch \/ in.fault = "open_mp3" THEN Raise("OSError", {})
        ELSE IF ~p.date_bound THEN Raise("UnboundLocalError", {"mp3"})
        ELSE IF in.fault = "open_picture" THEN Raise("OSError", {"mp3"})
        ELSE IF in.fault = "network" THEN Raise("RequestException", close_files(files))
        ELSE LET h == handle_response(in.status, g.token, g.token_file, g.written,
                                      watch, shows, f, p.show_name, in.fault)
             IN  R(h.outcome, h.exc, h.logged, in.status,
                   h.token, h.token_file, h.written, h.watch, h.shows, close_files(files))

-----------------------------------------------------------------------------
(* FolderWatcher and the process *)

NoLast ==
    [op |-> "none", file |-> <<>>, outcome |-> "none", exc |-> "none", logged |-> "none",
     status |-> 0, src |-> "none", endpoint |-> "none", posts |-> 0, ret |-> None,
     leaked |-> {}, cache |-> "none"]

\* Path(watch_folder).glob("*.mp3"), line 249
Glob_none(f) == FALSE

Glob(f) == EndsWith(f, MP3)

\* line 250: mp3_file not in self.seen_files
IsNew_always(f) == TRUE

IsNew(f) == f \notin seen_files

\* line 251: self.seen_files.add(mp3_file)
MarkSeen_forget(f) == seen_files

MarkSeen(f) == seen_files \cup {f}

Init ==
    /\ token = None
    /\ token_file \in {Absent} \cup InitialFiles
    /\ written = None
    /\ watch_folder \in SUBSET Names
    /\ shows_folder = {}
    /\ seen_files = {}
    /\ pending = {}
    /\ pc = "main"
    /\ uploads = [f \in Names |-> <<>>]
    /\ last = NoLast
    /\ filename = <<>>
    /\ parsed = <<>>
    /\ meta = NoMeta
    /\ fields = <<>>
    /\ inbox = <<>>
    /\ handled = <<>>
    /\ responses = <<>>
    /\ code_holder = {}
    /\ arrival = [f \in Names |-> "none"]

\* line 260: token = auth.get_token(); an exception ends the process
GetTokenMain ==
    /\ pc = "main"
    /\ \E in \in (IF NeedsFlow(token, token_file) THEN FlowInputs ELSE {NoFlow}) :
         \E g \in {get_token(token, token_file, written, in)} :
             /\ token' = g.token
             /\ token_file' = g.token_file
             /\ written' = g.written
             /\ pc' = IF g.exc = "none" THEN "scan" ELSE "crashed"
             /\ last' = [op |-> "get_token", file |-> <<>>,
                         outcome |-> IF g.exc = "none" THEN "ret" ELSE "raise",
                         exc |-> g.exc, logged |-> "none", status |-> 0, src |-> g.src,
                         endpoint |-> g.endpoint, posts |-> g.posts, ret |-> g.ret,
                         leaked |-> {}, cache |-> CacheState(token, token_file)]
    /\ UNCHANGED <<watch_folder, shows_folder, seen_files, pending, uploads, parseVars, arrival>>

\* line 249: the listing of one cycle
Scan ==
    /\ pc = "scan"
    /\ pending' = {f \in watch_folder : Glob(f)}
    /\ arrival' = [f \in Names |-> IF arrival[f] = "new" /\ f \in pending'
                                     THEN "listed" ELSE arrival[f]]
    /\ pc' = "iter"
    /\ UNCHANGED <<token, token_file, written, watch_folder, shows_folder, seen_files,
                   uploads, last, parseVars>>

\* lines 250-252 for a file not seen before: mark it, upload it
Dispatch(f) ==
    /\ pc = "iter"
    /\ f \in pending
    /\ IsNew(f)
    /\ Len(uploads[f]) < MaxCalls
    /\ \E in \in UploadInputs(token, token_file) :
         \E u \in {upload(f, token, token_file, written, watch_folder, shows_folder, in)} :
             /\ token' = u.token
             /\ token_file' = u.token_file
             /\ written' = u.written
             /\ watch_folder' = u.watch
             /\ shows_folder' = u.shows
             /\ uploads' = [uploads EXCEPT ![f] = Append(@, u.outcome)]
             /\ pc' = IF u.exc = "none" THEN "iter" ELSE "crashed"
             /\ last' = [op |-> "upload", file |-> f, outcome |-> u.outcome, exc |-> u.exc,
                         logged |-> u.logged, status |-> u.status, src |-> u.src,
                         endpoint |-> u.endpoint, posts |-> u.posts, ret |-> u.ret,
                         leaked |-> u.leaked, cache |-> CacheState(token, token_file)]
    /\ seen_files' = MarkSeen(f)
    /\ pending' = pending \ {f}
    /\ arrival' = [arrival EXCEPT ![f] = IF @ = "listed" THEN "done" ELSE @]
    /\ UNCHANGED parseVars

\* line 250 for a file already in seen_files
SkipSeen(f) ==
    /\ pc = "iter"
    /\ f \in pending
    /\ ~IsNew(f)
    /\ pending' = pending \ {f}
    /\ UNCHANGED <<token, token_file, written, watch_folder, shows_folder, seen_files,
                   pc, uploads, last, parseVars, arrival>>

\* line 253: the listing is exhausted, sleep, next cycle
Sleep ==
    /\ pc = "iter"
    /\ pending = {}
    /\ pc' = "scan"
    /\ UNCHANGED <<token, token_file, written, watch_folder, shows_folder, seen_files,
                   pending, uploads, last, parseVars, arrival>>

\* the environment drops a file into the watch folder
FileAppears(f) ==
    /\ pc # "parse"
    /\ f \in Names \ watch_folder
    /\ watch_folder' = watch_folder \cup {f}
    /\ UNCHANGED <<token, token_file, written, shows_folder, seen_files, pending, pc,
                   uploads, last, parseVars, arrival>>

\* the process is started again (lines 259-262): a fresh authenticator and
\* a fresh watcher over the same files
Restart ==
    /\ pc \in {"scan", "iter", "crashed"}
    /\ token' = None
    /\ seen_files' = {}
    /\ pending' = {}
    /\ pc' = "main"
    /\ uploads' = [f \in Names |-> <<>>]
    /\ last' = NoLast
    /\ UNCHANGED <<token_file, written, watch_folder, shows_folder, parseVars, arrival>>

Next ==
    \/ GetTokenMain
    \/ Scan
    \/ \E f \in Names : Dispatch(f)
    \/ \E f \in Names : SkipSeen(f)
    \/ Sleep
    \/ \E f \in Names : FileAppears(f)
    \/ Restart

Spec == Init /\ [][Next]_vars

-----------------------------------------------------------------------------
(* One process, with a token file that is edited or removed from outside *)

\* somebody else rewrites TOKEN_FILE (c a string) or removes it (c = Absent)
TokenFileChanged(c) ==
    /\ pc \in {"scan", "iter"}
    /\ c # token_file
    /\ token_file' = c
    /\ written' = None
    /\ UNCHANGED <<token, watch_folder, shows_folder, seen_files, pending, pc,
                   uploads, last, parseVars, arrival>>

NextEnv ==
    \/ GetTokenMain
    \/ Scan
    \/ \E f \in Names : Dispatch(f)
    \/ \E f \in Names : SkipSeen(f)
    \/ Sleep
    \/ \E c \in {Absent} \cup InitialFiles : TokenFileChanged(c)

SpecEnv == Init /\ [][NextEnv]_vars

-----------------------------------------------------------------------------
(* One process whose loop is scheduled fairly, with arrivals kept track of *)

\* arrival[f]: "none", or where the latest arrival of f stands: "new" (not
\* listed by a cycle yet), "listed" (in the listing of a cycle), "done"
\* (passed to uploader.upload)
InitLive ==
    /\ token = None
    /\ token_file \in {Absent} \cup InitialFiles
    /\ written = None
    /\ watch_folder = {}
    /\ shows_folder = {}
    /\ seen_files = {}
    /\ pending = {}
    /\ pc = "main"
    /\ uploads = [f \in Names |-> <<>>]
    /\ last = NoLast
    /\ filename = <<>>
    /\ parsed = <<>>
    /\ meta = NoMeta
    /\ fields = <<>>
    /\ inbox = <<>>
    /\ handled = <<>>
    /\ responses = <<>>
    /\ code_holder = {}
    /\ arrival = [f \in Names |-> "none"]

\* the environment drops a file into the watch folder
FileArrives(f) ==
    /\ pc \in {"main", "scan", "iter"}
    /\ f \in Names \ watch_folder
    /\ watch_folder' = watch_folder \cup {f}
    /\ arrival' = [arrival EXCEPT ![f] = "new"]
    /\ UNCHANGED <<token, token_file, written, shows_folder, seen_files, pending, pc,
                   uploads, last, parseVars>>

NextLive ==
    \/ GetTokenMain
    \/ Scan
    \/ \E f \in Names : Dispatch(f)
    \/ \E f \in Names : SkipSeen(f)
    \/ Sleep
    \/ \E f \in Names : FileArrives(f)

\* ENABLED <<\E f \in Names : Dispatch(f)>>_vars, from the guard of Dispatch:
\* upload has an outcome for every input, and the step changes pending
DispatchEnabled ==
    \E f \in Names : pc = "iter" /\ f \in pending /\ IsNew(f) /\ Len(uploads[f]) < MaxCalls

\* WF_vars(\E f \in Names : Dispatch(f)), written out with DispatchEnabled
DispatchFair ==
    []<>(~DispatchEnabled) \/ []<><<\E f \in Names : Dispatch(f)>>_vars

\* the process runs on: whichever step of lines 260 and 248-253 is next is
\* taken in the end (time.sleep returns, the for loop visits every entry)
SpecLive ==
    /\ InitLive
    /\ [][NextLive]_vars
    /\ WF_vars(GetTokenMain \/ Scan \/ (\E f \in Names : SkipSeen(f)) \/ Sleep)
    /\ DispatchFair

-----------------------------------------------------------------------------
(* The filename parsing alone *)

Pieces == {<<"a">>, <<"1">>, <<" ">>, <<".">>, MP3}

RECURSIVE Flatten(_)
Flatten(ss) == IF ss = <<>> THEN <<>> ELSE Head(ss) \o Flatten(Tail(ss))

\* "<stem>.mp3" for every stem of at most n pieces that starts with a letter
\* and ends with a letter or a digit
ParseInputs(n) ==
    {Flatten(ps) \o MP3 :
        ps \in {qs \in SeqsUpTo(Pieces, n) :
                  qs # <<>> /\ qs[1] = <<"a">> /\ qs[Len(qs)] \in {<<"a">>, <<"1">>}}}

\* the same without ".mp3" inside the stem
FieldInputs(n) ==
    {Flatten(ps) \o MP3 :
        ps \in {qs \in SeqsUpTo(Pieces \ {MP3}, n) :
                  qs # <<>> /\ qs[1] = <<"a">> /\ qs[Len(qs)] \in {<<"a">>, <<"1">>}}}

InitParse ==
    /\ token = None
    /\ token_file = Absent
    /\ written = None
    /\ watch_folder = {}
    /\ shows_folder = {}
    /\ seen_files = {}
    /\ pending = {}
    /\ pc = "parse"
    /\ uploads = [f \in Names |-> <<>>]
    /\ last = NoLast
    /\ filename \in ParseInputs(MaxPieces)
    /\ parsed = <<>>
    /\ meta = NoMeta
    /\ fields = <<>>
    /\ inbox = <<>>
    /\ handled = <<>>
    /\ responses = <<>>
    /\ code_holder = {}
    /\ arrival = [f \in Names |-> "none"]

\* lines 163-177 applied to filename
Parse ==
    /\ pc = "parse"
    /\ parsed = <<>>
    /\ parsed' = <<ParseFilename(filename)>>
    /\ UNCHANGED <<progVars, filename, meta, fields, listenVars>>

NextParse == Parse

SpecParse == InitParse /\ [][NextParse]_vars

-----------------------------------------------------------------------------
(* The form fields alone *)

InitFields ==
    /\ token = None
    /\ token_file = Absent
    /\ written = None
    /\ watch_folder = {}
    /\ shows_folder = {}
    /\ seen_files = {}
    /\ pending = {}
    /\ pc = "fields"
    /\ uploads = [f \in Names |-> <<>>]
    /\ last = NoLast
    /\ filename \in FieldInputs(MaxPieces)
    /\ parsed = <<>>
    /\ meta \in CatalogEntries(MaxTags)
    /\ fields = <<>>
    /\ inbox = <<>>
    /\ handled = <<>>
    /\ responses = <<>>
    /\ code_holder = {}
    /\ arrival = [f \in Names |-> "none"]

\* lines 163-200 applied to filename and meta
Build ==
    /\ pc = "fields"
    /\ fields = <<>>
    /\ fields' = <<BuildFields(filename, meta)>>
    /\ UNCHANGED <<progVars, filename, parsed, meta, listenVars>>

NextFields == Build

SpecFields == InitFields /\ [][NextFields]_vars

-----------------------------------------------------------------------------
(* The callback listener of run_oauth_flow, lines 78-116 *)

\* OAuthHandler.do_GET, lines 81-92, on a request that carries a code
\* parameter or not: the status answered and the new code_holder
do_GET(has_code, holder) ==
    IF has_code
    THEN [response |-> 200, code_holder |-> holder \cup {"code"}]
    ELSE [response |-> 400, code_holder |-> holder]

\* line 101: while "code" not in code_holder
KeepListening_always(holder) == TRUE

KeepListening(holder) == "code" \notin holder

InitListen ==
    /\ token = None
    /\ token_file = Absent
    /\ written = None
    /\ watch_folder = {}
    /\ shows_folder = {}
    /\ seen_files = {}
    /\ pending = {}
    /\ pc = "listen"
    /\ uploads = [f \in Names |-> <<>>]
    /\ last = NoLast
    /\ filename = <<>>
    /\ parsed = <<>>
    /\ meta = NoMeta
    /\ fields = <<>>
    /\ inbox = <<>>
    /\ handled = <<>>
    /\ responses = <<>>
    /\ code_holder = {}
    /\ arrival = [f \in Names |-> "none"]

\* the browser, or anything else, sends a request to the redirect port
RequestArrives(has_code) ==
    /\ pc = "listen"
    /\ Len(handled) + Len(inbox) < MaxReqs
    /\ inbox' = Append(inbox, has_code)
    /\ UNCHANGED <<progVars, filename, parsed, meta, fields, handled, responses, code_holder>>

\* line 102: httpd.handle_request() serves the next request
handle_request ==
    /\ pc = "listen"
    /\ KeepListening(code_holder)
    /\ inbox # <<>>
    /\ \E r \in {do_GET(Head(inbox), code_holder)} :
         /\ responses' = Append(responses, r.response)
         /\ code_holder' = r.code_holder
    /\ handled' = Append(handled, Head(inbox))
    /\ inbox' = Tail(inbox)
    /\ UNCHANGED <<progVars, filename, parsed, meta, fields>>

\* lines 101, 104: the loop ends, the code is read from code_holder
LeaveLoop ==
    /\ pc = "listen"
    /\ ~KeepListening(code_holder)
    /\ pc' = "code"
    /\ UNCHANGED <<token, token_file, written, watch_folder, shows_folder, seen_files,
                   pending, uploads, last, parseVars, arrival>>

\* line 116: the token exchange
TokenPost ==
    /\ pc = "code"
    /\ pc' = "exchange"
    /\ UNCHANGED <<token, token_file, written, watch_folder, shows_folder, seen_files,
                   pending, uploads, last, parseVars, arrival>>

NextListen ==
    \/ \E has_code \in BOOLEAN : RequestArrives(has_code)
    \/ handle_request
    \/ LeaveLoop
    \/ TokenPost

SpecListen == InitListen /\ [][NextListen]_vars

-----------------------------------------------------------------------------
(* Properties *)

Range(s) == {s[i] : i \in 1..Len(s)}

\* this step is the call uploader.upload(f) of line 252
Dispatched(f) == Len(uploads'[f]) = Len(uploads[f]) + 1

\* this step is the call auth.get_token() of line 260
MainGetTokenStep == pc = "main" /\ pc' # "main"

\* this step calls get_token (line 260, or line 159 inside upload)
GetTokenStep == MainGetTokenStep \/ \E f \in Names : Dispatched(f)

\* an upload of f in this process returned False
HasFailed(f) == "False" \in Range(uploads[f])

\* C1: within one process, whatever the outcome of an upload and however
\* long the file stays in the folder, upload is called at most once per path.
C1_UploadAtMostOnce == \A f \in Names : Len(uploads[f]) <= 1

\* a later cycle lists a file that was uploaded before and is still there
C1_Witness ==
    /\ pc = "iter"
    /\ \E f \in pending : Len(uploads[f]) = 1 /\ f \in seen_files /\ f \in watch_folder

\* C2: no error of an upload call propagates out of the poll loop: after
\* any upload attempt the loop goes on (the process is never ended by one).
C2_UploadErrorsStayInLoop == ~(pc = "crashed" /\ last.op = "upload")

\* C3: a file whose upload returned failure is still in the watch folder and
\* in seen_files, and no later step of the same process uploads it again.
C3_FailedNotRetried ==
    [][\A f \in Names :
          /\ (HasFailed(f))' => (f \in watch_folder' /\ f \in seen_files')
          /\ HasFailed(f) => ~Dispatched(f)]_vars

\* f failed, a later upload renewed the token through the OAuth flow, and a
\* later cycle lists f again
C3_Witness ==
    /\ pc = "iter"
    /\ last.op = "upload" /\ last.src = "oauth" /\ last.exc = "none"
    /\ Truthy(token)
    /\ \E f \in pending : HasFailed(f) /\ f # last.file

\* C4: an upload answered 401 or 403 returns False with the in-memory
\* token cleared and the token file deleted; if the deletion fails that is
\* only logged, the token is still cleared and upload still returns.
C4_AuthFailureClearsToken ==
    [][\A f \in Names :
          (Dispatched(f) /\ last'.status \in {401, 403}) =>
              /\ last'.outcome = "False"
              /\ last'.exc = "none"
              /\ pc' = "iter"
              /\ token' = None
              /\ \/ token_file' = Absent
                 \/ /\ last'.logged = "remove_failed"
                    /\ token_file' \in {token_file, last'.ret}]_vars

\* the deletion failed: logged, token cleared, file still there, loop goes on
C4_Witness ==
    /\ last.op = "upload" /\ last.status = 403 /\ last.outcome = "False"
    /\ last.logged = "remove_failed"
    /\ token = None /\ token_file # Absent
    /\ pc = "iter"

\* C5: after an upload that ended in 401/403, the next get_token call runs
\* the OAuth flow again (what it returns is the flow's token, not the cached
\* or persisted copy of the rejected one), also when the deletion failed.
C5_NextGetTokenRunsFlow ==
    [][(last.op = "upload" /\ last.status \in {401, 403} /\ GetTokenStep)
          => last'.src = "oauth"]_vars

C7_TokenRoundTrip ==
    [][(MainGetTokenStep /\ token = None /\ written # None)
          => (last'.ret = written /\ last'.src = "file" /\ last'.posts = 0)]_vars

\* C8: when the token endpoint answers non-200, or 200 without an access
\* token, get_token raises after exactly one token POST, no token is cached
\* and the token file is as it was.
C8_TokenEndpointFailure ==
    [][(GetTokenStep /\ last'.endpoint \in {"http_error", "no_token"}) =>
          /\ last'.exc = "RuntimeError"
          /\ last'.posts = 1
          /\ ~Truthy(token')
          /\ token_file' = token_file
          /\ written' = written]_vars

\* the token exchange failed inside an upload, after a token had been written
C8_Witness ==
    /\ last.op = "upload" /\ last.endpoint = "http_error"
    /\ last.exc = "RuntimeError" /\ last.posts = 1
    /\ ~Truthy(token)

\* C9 as stated: a status other than 200, 401, 403 yields False and token,
\* token file, watch folder and shows folder are exactly as before the call.
C9_OtherStatusNoChange ==
    [][\A f \in Names :
          (Dispatched(f) /\ last'.status \notin {0, 200, 401, 403}) =>
              /\ last'.outcome = "False"
              /\ token' = token
              /\ token_file' = token_file
              /\ watch_folder' = watch_folder
              /\ shows_folder' = shows_folder]_vars

\* C9 amended: ... yields False; watch folder and shows folder are as before
\* the call; token and token file are as the call's get_token left them:
\* as before the call if a token was cached, else the token read from the
\* unchanged file, else the token the flow returned, written to the file.
C9_OtherStatusKeepsGetTokenState ==
    [][\A f \in Names :
          (Dispatched(f) /\ last'.status \notin {0, 200, 401, 403}) =>
              /\ last'.outcome = "False"
              /\ watch_folder' = watch_folder
              /\ shows_folder' = shows_folder
              /\ token' = last'.ret
              /\ Truthy(token) => (token' = token /\ token_file' = token_file)
              /\ last'.src = "file" => (token' = Strip(token_file) /\ token_file' = token_file)
              /\ last'.src = "oauth" => token_file' = token']_vars

\* an upload renewed the token and was then answered 500
C9_Witness ==
    /\ last.op = "upload" /\ last.status = 500 /\ last.outcome = "False"
    /\ last.src = "oauth"
    /\ token = last.ret /\ token_file = token
    /\ last.file \in watch_folder

\* the digits of a date
Digits == {"1"}

IsNumber(s) == s # <<>> /\ \A k \in 1..Len(s) : s[k] \in Digits

\* fn is "<show> <dd>.<mm>.<yyyy>.mp3" for these four strings
IsDatedForm(fn, show, dd, mm, yyyy) ==
    /\ IsNumber(dd) /\ IsNumber(mm) /\ IsNumber(yyyy)
    /\ fn = show \o <<" ">> \o dd \o <<".">> \o mm \o <<".">> \o yyyy \o MP3

\* fn ends in a blank followed by a date-like fragment: three fields
\* separated by '.', then ".mp3"
HasDateLikeSuffix(fn) ==
    \E i \in 1..Len(fn) :
        /\ fn[i] = " "
        /\ \A j \in (i + 1)..Len(fn) : fn[j] # " "
        /\ Len(Split(Remove(SubSeq(fn, i + 1, Len(fn)), MP3), ".")) = 3

\* C10: "<show> <dd>.<mm>.<yyyy>.mp3" parses to show name <show> and date
\* (dd, mm, yyyy); a filename without a blank-separated date-like suffix
\* parses to the whole filename without ".mp3" as show name, and no date.
C10_FilenameParsing ==
    Len(parsed) = 1 =>
        /\ \A i \in 1..Len(filename) :
             \A d \in SeqsUpTo(Digits, 2), m \in SeqsUpTo(Digits, 2), y \in SeqsUpTo(Digits, 2) :
                IsDatedForm(filename, SubSeq(filename, 1, i - 1), d, m, y) =>
                    /\ parsed[1].show_name = SubSeq(filename, 1, i - 1)
                    /\ parsed[1].has_date
                    /\ <<parsed[1].day, parsed[1].month, parsed[1].year>> = <<d, m, y>>
        /\ ~HasDateLikeSuffix(filename) =>
              /\ parsed[1].show_name = Remove(filename, MP3)
              /\ ~parsed[1].has_date

\* C11: for a filename with a parsed date, the title submitted in the field
\* "name" is show name, one blank, year.month.day, one blank, "w/", one
\* blank, host.
C11_TitleSingleSpaces ==
    \A i \in 1..Len(fields) :
        LET p == ParseFilename(filename)
        IN  p.has_date =>
                fields[i].name = p.show_name \o <<" ">> \o p.year \o <<".">> \o p.month
                                     \o <<".">> \o p.day \o <<" ", "w", "/", " ">> \o meta.host

\* C12: the tag fields submitted are tags-0-tag .. tags-(k-1)-tag with
\* k = min(5, number of tags of the catalog entry); they hold the first k
\* tags of the entry in catalog order, and no index is 5 or more.
C12_TagFields ==
    \A i \in 1..Len(fields) :
        fields[i].exc = "none" =>
            LET n == Len(meta.tags)
                k == IF n < 5 THEN n ELSE 5
            IN  /\ DOMAIN fields[i].tags = 0..(k - 1)
                /\ \A j \in 0..(k - 1) : fields[i].tags[j] = meta.tags[j + 1]

\* an entry of more than five tags has been submitted with five tag fields
C12_Witness ==
    /\ fields # <<>>
    /\ fields[1].exc = "none"
    /\ Len(meta.tags) > 5
    /\ DOMAIN fields[1].tags = 0..4

\* C14: for a filename with a malformed date fragment or with no date, the
\* form fields are built without an exception and with an empty date string,
\* also when the catalog does not hold the show.
C14_UndatedProceeds ==
    \A i \in 1..Len(fields) :
        ~ParseFilename(filename).has_date =>
            fields[i].exc = "none" /\ fields[i].date_str = <<>>

\* C13: every file handle opened by upload (the audio file, the optional
\* picture.jpg) is closed on every exit path of upload, normal or
\* exceptional.
C13_HandlesClosed ==
    [][\A f \in Names : Dispatched(f) => last'.leaked = {}]_vars

\* C15: when the upload POST answers 200, upload returns True whatever
\* happens during the relocation: a failure to create the destination
\* directory or to move the file neither raises nor changes the outcome.
C15_SuccessWhateverRelocation ==
    [][\A f \in Names :
          Dispatched(f) /\ last'.status = 200 =>
              last'.outcome = "True" /\ last'.exc = "none"]_vars

\* every request handled was answered 200 if it carried a code, else 400
AnsweredByCode ==
    /\ Len(responses) = Len(handled)
    /\ \A i \in 1..Len(handled) : responses[i] = IF handled[i] THEN 200 ELSE 400

\* no request was handled after the first one that carried a code
NoneAfterCode == \A i \in 1..(Len(handled) - 1) : ~handled[i]

\* the loop is left, and the token exchange started, only with a code captured
ExchangeNeedsCode ==
    pc \in {"code", "exchange"} =>
        "code" \in code_holder /\ handled # <<>> /\ handled[Len(handled)]

\* C16 as claimed: per code retrieval the listener accepts exactly one
\* inbound request, answers 200 if it carries a code and 400 otherwise, and
\* stops once a code is captured: nothing is handled after the first
\* code-bearing request and no token exchange starts without a code.
C16_ExactlyOneRequest ==
    /\ Len(handled) <= 1
    /\ AnsweredByCode
    /\ NoneAfterCode
    /\ ExchangeNeedsCode

\* C16 amended: the listener handles requests one at a time until the first
\* that carries a code; every request without a code is answered 400, the
\* one with a code 200 and it is the last one handled, so exactly one
\* code-bearing request is handled per retrieval, and the token exchange
\* starts only after it.
C16_OneCodeRequest ==
    /\ AnsweredByCode
    /\ NoneAfterCode
    /\ ExchangeNeedsCode
    /\ Cardinality({i \in 1..Len(handled) : handled[i]}) <= 1
    /\ ("code" \in code_holder) = (\E i \in 1..Len(handled) : handled[i])

\* the exchange started after a request without a code and the one with a
\* code were handled, with a later request left unhandled
C16_Witness ==
    /\ pc = "exchange"
    /\ handled = <<FALSE, TRUE>>
    /\ responses = <<400, 200>>
    /\ inbox # <<>>

\* C17: when a token is in memory, get_token returns it without reading or
\* writing the token file, without a token POST and without changing the
\* token in memory, also when the token file was changed or removed since.
\* (Inside upload, the file and the token change afterwards only on a 401 or
\* 403 answer, lines 213-219.)
C17_CachedTokenReturned ==
    [][\A f \in Names :
          Dispatched(f) /\ Truthy(token) =>
              /\ last'.src = "memory"
              /\ last'.ret = token
              /\ last'.posts = 0
              /\ last'.status \notin {401, 403} =>
                     token' = token /\ token_file' = token_file /\ written' = written]_vars

\* upload got the cached token from get_token although the token file was gone
C17_Witness ==
    /\ last.op = "upload"
    /\ last.cache = "removed"
    /\ last.src = "memory"
    /\ last.ret = token
    /\ token_file = Absent

\* C18: whenever the authenticator holds a non-empty token in memory, the
\* token file exists and holds that token (as written, or up to the
\* whitespace strip() removes), also after an operation that ended in an
\* error.
C18_TokenMirrored ==
    Truthy(token) =>
        token_file # Absent /\ (token_file = token \/ Strip(token_file) = token)

\* a cycle starts: line 249 takes the listing
ScanStep == pc = "scan" /\ pc' = "iter"

\* C19 as claimed, with a loop that is scheduled fairly and as long as no
\* call has raised: every *.mp3 file that appears in the watch folder and
\* stays is passed to uploader.upload, and no later than in the first full
\* cycle that starts after it appeared: that cycle lists it, and once the
\* cycle has visited it, it has been passed to upload.
C19_EveryArrivalUploaded ==
    /\ \A f \in Names :
          (arrival[f] = "new" /\ EndsWith(f, MP3)) ~> (arrival[f] = "done" \/ pc = "crashed")
    /\ [][ScanStep => \A f \in watch_folder : EndsWith(f, MP3) => arrival'[f] # "new"]_vars
    /\ [](\A f \in Names :
            arrival[f] = "listed" /\ pc # "crashed" => f \in pending)

\* C19 amended: the same for every *.mp3 path that was not passed to upload
\* earlier in this process; a file that arrives under a path already in
\* seen_files is listed and skipped.
C19_NewPathUploaded ==
    /\ \A f \in Names :
          (f \in watch_folder /\ EndsWith(f, MP3)) ~> (uploads[f] # <<>> \/ pc = "crashed")
    /\ [][ScanStep => \A f \in watch_folder : EndsWith(f, MP3) => arrival'[f] # "new"]_vars
    /\ [](\A f \in Names :
            arrival[f] = "listed" /\ f \notin pending /\ pc # "crashed" => uploads[f] # <<>>)

\* a cycle has ended in which a file that arrived while the process ran was
\* uploaded, and another arrival under an uploaded path was skipped
C19_Witness ==
    /\ pc = "scan"
    /\ \E f \in Names : arrival[f] = "done" /\ uploads[f] # <<>>
    /\ \E f \in Names : arrival[f] = "listed" /\ f \in seen_files /\ f \in watch_folder

====
